---- MODULE Spec2Model ----
(***************************************************************************)
(* Model of mirror.py: one file is mirrored to local storage by main(),    *)
(* which calls fetch_file(url, output_path, hash_url).                      *)
(*                                                                         *)
(* The file system is a map from paths to regular files.  A file's content *)
(* is a sequence of atoms: an atom is either a whitespace character or a   *)
(* whitespace-free run of characters.  Open handles follow their file      *)
(* through a rename (POSIX): a handle records the path under which its     *)
(* file is currently linked, or NoPath once that file has no name.         *)
(* Directories, permissions and hard links are not modelled.               *)
(***************************************************************************)
EXTENDS Integers, Sequences, FiniteSets, TLC

\* ---------------------------------------------------------------- bounds

\* Longest payload the server streams, in chunks.
MaxChunks == 2

\* Number of processes running main() on the same directory.
NumProcs == 2

Procs == 1..NumProcs

\* Longest checksum document, in atoms, the server answers with when the
\* documents are enumerated.
MaxDocLen == 4

\* ------------------------------------------------------- bytes and text

\* A streamed chunk is "x" or "y".

\* The zero byte a sparse write leaves below its offset.
Hole == "z"

\* A byte that does not decode as text: reading it raises UnicodeDecodeError.
BadByte == "#"

IsSpace(c) == c \in {" ", "\n"}

\* n chunks "x".
Xs(n) == [i \in 1..n |-> "x"]

\* The payloads the server streams: for every length up to MaxChunks the
\* one of "x" chunks alone and the one that ends in a "y" chunk.
Payloads ==
    {Xs(n) : n \in 0..MaxChunks}
    \cup {Append(Xs(n - 1), "y") : n \in 1..MaxChunks}

\* ----------------------------------------------------------------- paths

\* A path is the sequence of the dot-separated parts of its file name.
NoPath == <<>>

\* pathlib's with_suffix: the last part, when there is one after the stem,
\* is replaced.
WithSuffix(path, suffix) ==
    IF Len(path) > 1 THEN SubSeq(path, 1, Len(path) - 1) \o <<suffix>>
                     ELSE path \o <<suffix>>

get_hash_cache_path(output_path) == WithSuffix(output_path, "sha256")

\* output_path.with_suffix(output_path.suffix + ".downloading")
downloading_path(output_path) == output_path \o <<"downloading">>

\* str(output_path), as text.
RECURSIVE PathStr(_)
PathStr(path) ==
    IF path = <<>> THEN <<>>
    ELSE IF Len(path) = 1 THEN <<path[1]>>
    ELSE <<path[1], ".">> \o PathStr(Tail(path))

\* The destinations main() is started on.
Dests == {<<"file", "txt">>}

AllPaths ==
    UNION {{d, get_hash_cache_path(d), downloading_path(d)} : d \in Dests}

\* ----------------------------------------------------------------- files

Absent == [ex |-> FALSE, data |-> <<>>]

File(content) == [ex |-> TRUE, data |-> content]

\* ------------------------------------------------------- parse_hash_file

RECURSIVE LStrip(_)
LStrip(s) ==
    IF s # <<>> /\ IsSpace(Head(s)) THEN LStrip(Tail(s)) ELSE s

RECURSIVE RStrip(_)
RStrip(s) ==
    IF s # <<>> /\ IsSpace(s[Len(s)]) THEN RStrip(SubSeq(s, 1, Len(s) - 1))
    ELSE s

\* str.strip()
Strip(s) == RStrip(LStrip(s))

\* The run of non-whitespace atoms s starts with.
RECURSIVE TakeWord(_)
TakeWord(s) ==
    IF s = <<>> \/ IsSpace(Head(s)) THEN <<>>
    ELSE <<Head(s)>> \o TakeWord(Tail(s))

\* str.split(): the whitespace-delimited words, none of them empty.
RECURSIVE Split(_)
Split(s) ==
    LET t == LStrip(s)
        w == TakeWord(t)
    IN IF t = <<>> THEN <<>>
       ELSE <<w>> \o Split(SubSeq(t, Len(w) + 1, Len(t)))

\* Slip: the last word is returned.
parse_hash_file_last(content) ==
    LET parts == Split(Strip(content))
    IN IF parts = <<>> THEN [ok |-> FALSE, val |-> <<>>]
       ELSE [ok |-> TRUE, val |-> parts[Len(parts)]]

\* parse_hash_file: [ok |-> TRUE, val |-> parts[0]], or ok = FALSE for
\* ValueError("Empty hash file").
parse_hash_file(content) ==
    LET parts == Split(Strip(content))
    IN IF parts = <<>> THEN [ok |-> FALSE, val |-> <<>>]
       ELSE [ok |-> TRUE, val |-> parts[1]]

\* ----------------------------------------------------------------- sha256

HexOf(b) == IF b = "x" THEN "0" ELSE IF b = "y" THEN "1" ELSE "2"

\* hashlib.sha256(...).hexdigest() of the bytes fed so far: a non-empty word
\* without whitespace, different for different inputs (no collisions).
HexDigest(bytes) == <<"s">> \o [i \in 1..Len(bytes) |-> HexOf(bytes[i])]

\* ---------------------------------------------------------------- server

\* The usual checksum document of a digest: "digest  name".
DocLine(d) == d \o <<" ", " ", "name">>

\* What the checksum URL may answer with status 200: the usual document of
\* every payload's digest, one of them with other white space around it, a
\* document naming a digest no payload has, and documents with no word.
Docs ==
    {DocLine(HexDigest(p)) : p \in Payloads}
    \cup {<<" ">> \o HexDigest(<<"x">>) \o <<"\n">>,
          DocLine(<<"bogus">>), <<>>, <<" ", "\n">>}

\* HTTPStatus.OK
HTTP_OK == 200

Statuses == {HTTP_OK, 404}

\* ----------------------------------------------------------------- state

VARIABLES
    fs,          \* [AllPaths -> files]: the directory of the mirror
    pc,          \* [Procs -> where the process is in main()/fetch_file()]
    lv,          \* [Procs -> the local variables of fetch_file]
    h,           \* [Procs -> what the current invocation has seen and done]
    fs0,         \* the directory when the invocations now running began
    exit_status, \* [Procs -> the value main() returned last; -1 before]
    mirrored     \* the checksum of the last invocation that returned True,
                 \* while every invocation since resolved the same one

vars == <<fs, pc, lv, h, fs0, exit_status, mirrored>>

NoHash == <<>>

InitLocals ==
    [output_path |-> NoPath, expected_hash |-> NoHash, body |-> <<>>,
     sha |-> <<>>, open |-> FALSE, at |-> NoPath, off |-> 0,
     success |-> FALSE, pending |-> "none"]

InitHist ==
    [doc_status |-> 0, doc |-> <<>>, repeat |-> FALSE,
     status |-> 0, payload |-> <<>>, verified |-> FALSE,
     effects |-> {}, ret |-> "none", end |-> "none"]

\* Slip: the record is written "path  digest".
CacheTextSwapped(expected_hash, output_path) ==
    PathStr(output_path) \o <<" ", " ">> \o expected_hash

\* Slip: the two spaces between digest and path are missing.
CacheTextJoined(expected_hash, output_path) ==
    expected_hash \o PathStr(output_path)

\* The content a cache record has when an earlier run of this program
\* wrote it for the destination d.
CacheText(expected_hash, output_path) ==
    expected_hash \o <<" ", " ">> \o PathStr(output_path)

\* The directory main() may be started in: the destination absent or left by
\* an earlier run, the cache record absent, written by an earlier run, empty
\* or not decodable, the .downloading file absent or left behind (empty or
\* partly written) by a run that did not finish.
InitDest == {Absent, File(<<"x">>)}

InitCache(d) ==
    {Absent, File(<<>>), File(<<BadByte>>),
     File(CacheText(HexDigest(<<"x">>), d)),
     File(CacheText(HexDigest(<<"y">>), d))}

InitLock == {Absent, File(<<>>), File(<<"y">>)}

Init ==
    /\ fs \in [AllPaths -> InitDest \cup InitLock
                           \cup UNION {InitCache(d) : d \in Dests}]
    /\ \A d \in Dests :
        /\ fs[d] \in InitDest
        /\ fs[get_hash_cache_path(d)] \in InitCache(d)
        /\ fs[downloading_path(d)] \in InitLock
    /\ pc = [p \in Procs |-> "idle"]
    /\ lv = [p \in Procs |-> InitLocals]
    /\ h = [p \in Procs |-> InitHist]
    /\ fs0 = fs
    /\ exit_status = [p \in Procs |-> -1]
    /\ mirrored = NoHash

\* ------------------------------------------------------ file operations

\* Slip: the payload is copied to dst and src is left in place.
RenameCopies(f, src, dst) == [f EXCEPT ![dst] = f[src]]

\* os.rename(src, dst): dst is replaced in one step.
Rename(f, src, dst) == [f EXCEPT ![dst] = f[src], ![src] = Absent]

\* os.unlink(path)
Unlink(f, path) == [f EXCEPT ![path] = Absent]

\* Where an open handle's file is linked after rename(src, dst).
AtAfterRename(at, src, dst) ==
    IF at = src THEN dst ELSE IF at = dst THEN NoPath ELSE at

\* Where an open handle's file is linked after unlink(path).
AtAfterUnlink(at, path) == IF at = path THEN NoPath ELSE at

\* write() of one chunk at offset off of a file holding data.
WriteAt(data, off, chunk) ==
    IF off < Len(data) THEN [data EXCEPT ![off + 1] = chunk]
    ELSE data \o [i \in 1..(off - Len(data)) |-> Hole] \o <<chunk>>

\* Reading a file as text raises when a byte does not decode.
Decodable(data) == \A i \in 1..Len(data) : data[i] # BadByte

\* --------------------------------------------------- leaving fetch_file

\* fetch_file returns v ("True" or "False") or raises ("raise") to main().
Leave(p, v, end) ==
    /\ pc' = [pc EXCEPT ![p] = "main_exit"]
    /\ h' = [h EXCEPT ![p].ret = v, ![p].end = end]

\* Control enters the finally clause with a return value or an exception
\* pending.
ToFinally(p, v, end) ==
    /\ pc' = [pc EXCEPT ![p] = "finally"]
    /\ lv' = [lv EXCEPT ![p].pending = v]
    /\ h' = [h EXCEPT ![p].end = end]

\* ------------------------------------------------------------------ main

\* main(): the arguments are parsed and fetch_file is called.  A process
\* runs main() once, or again and again.  The directory is recorded when no
\* other invocation is running.
MainCall(p, again) ==
    /\ pc[p] = "idle"
    /\ again \/ exit_status[p] = -1
    /\ \E d \in Dests :
        lv' = [lv EXCEPT ![p] = [InitLocals EXCEPT !.output_path = d]]
    /\ h' = [h EXCEPT ![p] = InitHist]
    /\ fs0' = IF \A q \in Procs \ {p} : pc[q] = "idle" THEN fs ELSE fs0
    /\ pc' = [pc EXCEPT ![p] = "check_args"]
    /\ UNCHANGED <<fs, exit_status, mirrored>>

\* fetch_file: `if not hash_url: raise ValueError`.
CheckArgs(p) ==
    /\ pc[p] = "check_args"
    /\ \E hash_url_given \in BOOLEAN :
        IF ~hash_url_given
        THEN Leave(p, "raise", "NO_HASH_URL")
        ELSE /\ pc' = [pc EXCEPT ![p] = "get_hash"]
             /\ h' = h
    /\ UNCHANGED <<fs, lv, fs0, exit_status, mirrored>>

\* The last mirrored checksum once an invocation has resolved expected_hash:
\* kept when it is the same one, forgotten when it is another.
Resolved(expected_hash) ==
    IF mirrored = expected_hash THEN mirrored ELSE NoHash

\* Slip: a checksum document without a token is requested again.
GetHashRetries(p, docs) ==
    /\ pc[p] = "get_hash"
    /\ \/ /\ Leave(p, "raise", "HASH_NET")
          /\ UNCHANGED <<lv, mirrored>>
       \/ \E status \in Statuses \ {HTTP_OK} :
            /\ pc' = [pc EXCEPT ![p] = "main_exit"]
            /\ h' = [h EXCEPT ![p].ret = "raise", ![p].end = "HASH_STATUS",
                              ![p].doc_status = status]
            /\ UNCHANGED <<lv, mirrored>>
       \/ \E text \in docs :
            LET parsed == parse_hash_file(text) IN
            IF ~parsed.ok \/ parsed.val = <<>>
            THEN /\ pc' = pc
                 /\ h' = [h EXCEPT ![p].doc_status = HTTP_OK,
                                   ![p].doc = text]
                 /\ UNCHANGED <<lv, mirrored>>
            ELSE /\ lv' = [lv EXCEPT ![p].expected_hash = parsed.val]
                 /\ mirrored' = Resolved(parsed.val)
                 /\ pc' = [pc EXCEPT ![p] = "cache_check"]
                 /\ h' = [h EXCEPT ![p].doc_status = HTTP_OK,
                                   ![p].doc = text,
                                   ![p].repeat = (mirrored = parsed.val)]
    /\ UNCHANGED <<fs, fs0, exit_status>>

\* fetch_file: the checksum document is fetched and parsed.
GetHash(p, docs) ==
    /\ pc[p] = "get_hash"
    /\ \/ \* the request itself fails (httpx raises)
          /\ Leave(p, "raise", "HASH_NET")
          /\ UNCHANGED <<lv, mirrored>>
       \/ \E status \in Statuses \ {HTTP_OK} :
            /\ pc' = [pc EXCEPT ![p] = "main_exit"]
            /\ h' = [h EXCEPT ![p].ret = "raise", ![p].end = "HASH_STATUS",
                              ![p].doc_status = status]
            /\ UNCHANGED <<lv, mirrored>>
       \/ \E text \in docs :
            LET parsed == parse_hash_file(text) IN
            IF ~parsed.ok \/ parsed.val = <<>>
            THEN /\ pc' = [pc EXCEPT ![p] = "main_exit"]
                 /\ h' = [h EXCEPT ![p].ret = "raise",
                                   ![p].end = "HASH_FORMAT",
                                   ![p].doc_status = HTTP_OK,
                                   ![p].doc = text]
                 /\ UNCHANGED <<lv, mirrored>>
            ELSE /\ lv' = [lv EXCEPT ![p].expected_hash = parsed.val]
                 /\ mirrored' = Resolved(parsed.val)
                 /\ pc' = [pc EXCEPT ![p] = "cache_check"]
                 /\ h' = [h EXCEPT ![p].doc_status = HTTP_OK,
                                   ![p].doc = text,
                                   ![p].repeat = (mirrored = parsed.val)]
    /\ UNCHANGED <<fs, fs0, exit_status>>

\* Slip: the destination is not tested.
CacheHitRecordOnly(f, output_path, expected_hash) ==
    LET rec == f[get_hash_cache_path(output_path)] IN
    /\ rec.ex
    /\ Decodable(rec.data)
    /\ parse_hash_file(rec.data).ok
    /\ parse_hash_file(rec.data).val = expected_hash

\* The cache record names the expected checksum: `cached_hash ==
\* expected_hash` after a read and a parse that did not raise.
CacheHit(f, output_path, expected_hash) ==
    LET rec == f[get_hash_cache_path(output_path)] IN
    /\ f[output_path].ex
    /\ rec.ex
    /\ Decodable(rec.data)
    /\ parse_hash_file(rec.data).ok
    /\ parse_hash_file(rec.data).val = expected_hash

\* fetch_file: the cache check.
CacheCheck(p) ==
    /\ pc[p] = "cache_check"
    /\ IF CacheHit(fs, lv[p].output_path, lv[p].expected_hash)
       THEN Leave(p, "False", "UNCHANGED")
       ELSE /\ pc' = [pc EXCEPT ![p] = "lock_check"]
            /\ h' = h
    /\ UNCHANGED <<fs, lv, fs0, exit_status, mirrored>>

\* Slip: the lock check tests the destination, not the .downloading file.
LockHeldDest(f, output_path) == f[output_path].ex

\* Slip: an empty .downloading file does not count as a lock.
LockHeldNonEmpty(f, output_path) ==
    /\ f[downloading_path(output_path)].ex
    /\ f[downloading_path(output_path)].data # <<>>

\* `downloading_path.exists()`
LockHeld(f, output_path) == f[downloading_path(output_path)].ex

\* Slip: the invocation waits at the lock check until the marker is gone.
LockCheckWaits(p) ==
    /\ pc[p] = "lock_check"
    /\ ~LockHeld(fs, lv[p].output_path)
    /\ pc' = [pc EXCEPT ![p] = "open_dl"]
    /\ UNCHANGED <<fs, lv, h, fs0, exit_status, mirrored>>

\* Slip: the lock check is inside the try statement, so the finally clause
\* runs when it returns.
LockCheckCleans(p) ==
    /\ pc[p] = "lock_check"
    /\ IF LockHeld(fs, lv[p].output_path)
       THEN ToFinally(p, "False", "LOCKED")
       ELSE /\ pc' = [pc EXCEPT ![p] = "open_dl"]
            /\ h' = h
            /\ lv' = lv
    /\ UNCHANGED <<fs, fs0, exit_status, mirrored>>

\* fetch_file: the lock check.
LockCheck(p) ==
    /\ pc[p] = "lock_check"
    /\ IF LockHeld(fs, lv[p].output_path)
       THEN Leave(p, "False", "LOCKED")
       ELSE /\ pc' = [pc EXCEPT ![p] = "open_dl"]
            /\ h' = h
    /\ UNCHANGED <<fs, lv, fs0, exit_status, mirrored>>

\* fetch_file: `open(downloading_path, "wb")` creates the file, or empties
\* the one that is there; it is outside the try statement, so an error here
\* reaches main() without the finally clause.
OpenDownloading(p) ==
    /\ pc[p] = "open_dl"
    /\ \/ /\ Leave(p, "raise", "OPEN_ERR")
          /\ UNCHANGED <<fs, lv>>
       \/ LET dl == downloading_path(lv[p].output_path) IN
          /\ fs' = [fs EXCEPT ![dl] = File(<<>>)]
          /\ lv' = [lv EXCEPT ![p].open = TRUE, ![p].at = dl, ![p].off = 0,
                              ![p].sha = <<>>, ![p].success = FALSE]
          /\ h' = [h EXCEPT ![p].effects = @ \cup {"open_dl"}]
          /\ pc' = [pc EXCEPT ![p] = "request"]
    /\ UNCHANGED <<fs0, exit_status, mirrored>>

\* fetch_file: `client.stream("GET", url)` and the status test.
Request(p, payloads) ==
    /\ pc[p] = "request"
    /\ \/ /\ ToFinally(p, "raise", "PAYLOAD_NET")
       \/ \E status \in Statuses, payload \in payloads :
            IF status # HTTP_OK
            THEN /\ pc' = [pc EXCEPT ![p] = "finally"]
                 /\ lv' = [lv EXCEPT ![p].pending = "False"]
                 /\ h' = [h EXCEPT ![p].end = "TRANSPORT_FAIL",
                                   ![p].status = status,
                                   ![p].effects = @ \cup {"stream_request"}]
            ELSE /\ pc' = [pc EXCEPT ![p] = "stream"]
                 /\ lv' = [lv EXCEPT ![p].body = payload]
                 /\ h' = [h EXCEPT ![p].status = status,
                                   ![p].payload = payload,
                                   ![p].effects = @ \cup {"stream_request"}]
    /\ UNCHANGED <<fs, fs0, exit_status, mirrored>>

\* fetch_file: one turn of the loop over response.iter_bytes(): the chunk
\* is written through the open handle and flushed, and fed to sha256.
StreamChunk(p) ==
    /\ pc[p] = "stream"
    /\ lv[p].body # <<>>
    /\ LET chunk == Head(lv[p].body)
           at == lv[p].at
       IN /\ fs' = IF at = NoPath THEN fs
                   ELSE [fs EXCEPT ![at].data = WriteAt(@, lv[p].off, chunk)]
          /\ lv' = [lv EXCEPT ![p].body = Tail(@), ![p].off = @ + 1,
                              ![p].sha = Append(@, chunk)]
          /\ h' = [h EXCEPT ![p].effects = @ \cup {"write_dl"}]
    /\ UNCHANGED <<pc, fs0, exit_status, mirrored>>

\* fetch_file: the stream breaks, or the write fails, before the loop ends.
StreamError(p) ==
    /\ pc[p] = "stream"
    /\ ToFinally(p, "raise", "STREAM_ERR")
    /\ UNCHANGED <<fs, fs0, exit_status, mirrored>>

\* Slip: only the first character of the two digests is compared.
HashMismatchPrefix(downloaded_hash, expected_hash) ==
    downloaded_hash[1] # expected_hash[1]

\* `downloaded_hash != expected_hash`
HashMismatch(downloaded_hash, expected_hash) ==
    downloaded_hash # expected_hash

\* Slip: the digest is compared before the stream has ended.
VerifyBeforeEnd(p) ==
    /\ pc[p] = "stream"
    /\ IF HashMismatch(HexDigest(lv[p].sha), lv[p].expected_hash)
       THEN ToFinally(p, "raise", "CORRUPT")
       ELSE /\ lv' = [lv EXCEPT ![p].success = TRUE]
            /\ pc' = [pc EXCEPT ![p] = "move"]
            /\ h' = [h EXCEPT ![p].verified = TRUE]
    /\ UNCHANGED <<fs, fs0, exit_status, mirrored>>

\* Slip: the cache record is written before the move.
VerifyThenCache(p) ==
    /\ pc[p] = "stream"
    /\ lv[p].body = <<>>
    /\ IF HashMismatch(HexDigest(lv[p].sha), lv[p].expected_hash)
       THEN ToFinally(p, "raise", "CORRUPT")
       ELSE /\ lv' = [lv EXCEPT ![p].success = TRUE]
            /\ pc' = [pc EXCEPT ![p] = "cache_open"]
            /\ h' = [h EXCEPT ![p].verified = TRUE]
    /\ UNCHANGED <<fs, fs0, exit_status, mirrored>>

\* fetch_file: the loop has ended; the digest is compared, and `success` is
\* set before the move.
Verify(p) ==
    /\ pc[p] = "stream"
    /\ lv[p].body = <<>>
    /\ IF HashMismatch(HexDigest(lv[p].sha), lv[p].expected_hash)
       THEN ToFinally(p, "raise", "CORRUPT")
       ELSE /\ lv' = [lv EXCEPT ![p].success = TRUE]
            /\ pc' = [pc EXCEPT ![p] = "move"]
            /\ h' = [h EXCEPT ![p].verified = TRUE]
    /\ UNCHANGED <<fs, fs0, exit_status, mirrored>>

\* fetch_file: `shutil.move(downloading_path, output_path)`: a rename in
\* the same directory, which fails when the source is gone or the file
\* system refuses.  `success` is already True.
Move(p) ==
    /\ pc[p] = "move"
    /\ LET out == lv[p].output_path
           dl == downloading_path(out)
       IN \/ /\ ToFinally(p, "raise", "MOVE_ERR")
             /\ fs' = fs
          \/ /\ fs[dl].ex
             /\ fs' = Rename(fs, dl, out)
             /\ lv' = [q \in Procs |->
                         [lv[q] EXCEPT !.at = AtAfterRename(@, dl, out)]]
             /\ h' = [h EXCEPT ![p].effects = @ \cup {"rename"}]
             /\ pc' = [pc EXCEPT ![p] = "cache_open"]
    /\ UNCHANGED <<fs0, exit_status, mirrored>>

\* fetch_file: `open(hash_cache_path, "w")` creates the cache record, or
\* empties the one that is there.
CacheOpen(p) ==
    /\ pc[p] = "cache_open"
    /\ \/ /\ ToFinally(p, "raise", "CACHE_ERR")
          /\ fs' = fs
       \/ /\ fs' = [fs EXCEPT ![get_hash_cache_path(lv[p].output_path)] =
                                 File(<<>>)]
          /\ h' = [h EXCEPT ![p].effects = @ \cup {"trunc_cache"}]
          /\ pc' = [pc EXCEPT ![p] = "cache_write"]
          /\ lv' = lv
    /\ UNCHANGED <<fs0, exit_status, mirrored>>

\* A text written from offset 0 over what the file holds.
Overlay(data, text) == text \o SubSeq(data, Len(text) + 1, Len(data))

\* fetch_file: `f.write(f"{expected_hash}  {output_path}")`, the close of
\* the cache record and `return success`.
CacheWrite(p) ==
    /\ pc[p] = "cache_write"
    /\ \/ /\ ToFinally(p, "raise", "CACHE_ERR")
          /\ fs' = fs
       \/ LET out == lv[p].output_path IN
          /\ fs' = [fs EXCEPT ![get_hash_cache_path(out)].data =
                      Overlay(@, CacheText(lv[p].expected_hash, out))]
          /\ pc' = [pc EXCEPT ![p] = "finally"]
          /\ lv' = [lv EXCEPT ![p].pending = "True"]
          /\ h' = [h EXCEPT ![p].end = "COMMITTED",
                            ![p].effects = @ \cup {"write_cache"}]
    /\ UNCHANGED <<fs0, exit_status, mirrored>>

\* Slip: the `not` is missing.
NeedsCleanupInverted(success, lock_exists) == success /\ lock_exists

\* `if not success and downloading_path.exists()`
NeedsCleanup(success, lock_exists) == ~success /\ lock_exists

\* Slip: the cleanup unlinks the destination.
CleanupDest(f, output_path) == Unlink(f, output_path)

\* `os.unlink(downloading_path)`
Cleanup(f, output_path) == Unlink(f, downloading_path(output_path))

\* fetch_file: the finally clause, the close of the .downloading handle, and
\* the pending return or exception reaching main().
Finally(p) ==
    /\ pc[p] = "finally"
    /\ LET dl == downloading_path(lv[p].output_path)
           cleanup == NeedsCleanup(lv[p].success, fs[dl].ex)
       IN /\ fs' = IF cleanup THEN Cleanup(fs, lv[p].output_path) ELSE fs
          /\ lv' = [q \in Procs |->
                      IF q = p THEN [lv[q] EXCEPT !.open = FALSE, !.at = NoPath]
                      ELSE IF cleanup
                      THEN [lv[q] EXCEPT !.at = AtAfterUnlink(@, dl)]
                      ELSE lv[q]]
          /\ h' = [h EXCEPT ![p].ret = lv[p].pending,
                            ![p].effects =
                                IF cleanup THEN @ \cup {"unlink_dl"} ELSE @]
    /\ mirrored' = IF lv[p].pending = "True" THEN lv[p].expected_hash
                   ELSE mirrored
    /\ pc' = [pc EXCEPT ![p] = "main_exit"]
    /\ UNCHANGED <<fs0, exit_status>>

\* Slip: the exit status says whether the file was updated.
ExitCodeUpdated(ret) == IF ret = "True" THEN 0 ELSE 1

\* main(): 1 from the `except Exception` clause, 0 from the else clause.
ExitCode(ret) == IF ret = "raise" THEN 1 ELSE 0

\* main() returns and the process ends: of the invocation only its outcome,
\* the payload it verified and the exit status are kept.
MainExit(p) ==
    /\ pc[p] = "main_exit"
    /\ exit_status' = [exit_status EXCEPT ![p] = ExitCode(h[p].ret)]
    /\ pc' = [pc EXCEPT ![p] = "idle"]
    /\ lv' = [lv EXCEPT ![p] = InitLocals]
    /\ h' = [h EXCEPT ![p] = [InitHist EXCEPT !.ret = h[p].ret,
                                              !.end = h[p].end,
                                              !.payload = h[p].payload,
                                              !.verified = h[p].verified]]
    /\ UNCHANGED <<fs, fs0, mirrored>>

\* One step of process p, the server answering from docs and payloads.
Step(p, docs, payloads, again) ==
    \/ MainCall(p, again)
    \/ CheckArgs(p)
    \/ GetHash(p, docs)
    \/ CacheCheck(p)
    \/ LockCheck(p)
    \/ OpenDownloading(p)
    \/ Request(p, payloads)
    \/ StreamChunk(p)
    \/ StreamError(p)
    \/ Verify(p)
    \/ Move(p)
    \/ CacheOpen(p)
    \/ CacheWrite(p)
    \/ Finally(p)
    \/ MainExit(p)

\* One process runs main() again and again: no two invocations overlap.
Next == Step(1, Docs, Payloads, TRUE)

Spec == Init /\ [][Next]_vars

\* Every process runs main() once, in any interleaving, on a
\* directory without a .downloading file; the server has two payloads of
\* full length and their checksum documents.
ConcPayloads == {p \in Payloads : Len(p) = MaxChunks}

ConcDocs == {DocLine(HexDigest(p)) : p \in ConcPayloads}

InitConc ==
    /\ Init
    /\ \A d \in Dests :
        /\ ~fs[downloading_path(d)].ex
        /\ fs[get_hash_cache_path(d)] \in {Absent, File(<<>>)}

NextConc == \E p \in Procs : Step(p, ConcDocs, ConcPayloads, FALSE)

SpecConc == InitConc /\ [][NextConc]_vars

\* Every process runs main() once, in any interleaving, on a directory that
\* starts empty; the server has one payload of full length and its checksum
\* document.
RacePayloads == {Xs(MaxChunks)}

RaceDocs == {DocLine(HexDigest(p)) : p \in RacePayloads}

InitRace ==
    /\ Init
    /\ \A path \in AllPaths : ~fs[path].ex

NextRace == \E p \in Procs : Step(p, RaceDocs, RacePayloads, FALSE)

SpecRace == InitRace /\ [][NextRace]_vars

\* One process runs main() again and again, the server free to change the
\* checksum document and the payload between invocations, on a directory
\* that starts with neither destination nor cache record.
InitFresh ==
    /\ Init
    /\ \A d \in Dests :
        /\ ~fs[d].ex
        /\ ~fs[get_hash_cache_path(d)].ex

SpecFresh == InitFresh /\ [][Next]_vars

\* Destinations whose derived paths meet: two that differ in their suffix
\* alone, and one whose suffix is that of a cache record.
KeyDests == {<<"a", "txt">>, <<"a", "bin">>, <<"a", "sha256">>}

KeyPaths ==
    UNION {{d, get_hash_cache_path(d), downloading_path(d)} : d \in KeyDests}

\* The directory is empty before the first call.
InitKeys ==
    /\ fs = [path \in KeyPaths |-> Absent]
    /\ pc = [p \in Procs |-> "idle"]
    /\ lv = [p \in Procs |-> InitLocals]
    /\ h = [p \in Procs |-> InitHist]
    /\ fs0 = fs
    /\ exit_status = [p \in Procs |-> -1]
    /\ mirrored = NoHash

\* main() is called with one of these destinations.
MainCallKeys(p) ==
    /\ pc[p] = "idle"
    /\ \E d \in KeyDests :
        lv' = [lv EXCEPT ![p] = [InitLocals EXCEPT !.output_path = d]]
    /\ h' = [h EXCEPT ![p] = InitHist]
    /\ fs0' = fs
    /\ pc' = [pc EXCEPT ![p] = "check_args"]
    /\ UNCHANGED <<fs, exit_status, mirrored>>

\* One process runs main() again and again, on any of these destinations.
NextKeys ==
    \/ MainCallKeys(1)
    \/ CheckArgs(1)
    \/ GetHash(1, ConcDocs)
    \/ CacheCheck(1)
    \/ LockCheck(1)
    \/ OpenDownloading(1)
    \/ Request(1, ConcPayloads)
    \/ StreamChunk(1)
    \/ StreamError(1)
    \/ Verify(1)
    \/ Move(1)
    \/ CacheOpen(1)
    \/ CacheWrite(1)
    \/ Finally(1)
    \/ MainExit(1)

SpecKeys == InitKeys /\ [][NextKeys]_vars

\* One process runs main() again and again on a directory that starts
\* empty; the checksum URL answers with any text of white space and of the
\* atoms of a digest, up to MaxDocLen atoms, and the payload is one chunk.
DocAtoms == {" ", "\n", "s", "0"}

ParseDocs == UNION {[1..n -> DocAtoms] : n \in 0..MaxDocLen}

ParsePayloads == {Xs(1)}

InitParse ==
    /\ Init
    /\ \A path \in AllPaths : ~fs[path].ex

NextParse == Step(1, ParseDocs, ParsePayloads, TRUE)

SpecParse == InitParse /\ [][NextParse]_vars

\* The process is killed inside main(): no further statement runs, the
\* finally clause included; its open files are closed and the directory
\* stays as the last completed system call left it.
Crash(p) ==
    /\ pc[p] # "idle"
    /\ pc' = [pc EXCEPT ![p] = "idle"]
    /\ lv' = [lv EXCEPT ![p] = InitLocals]
    /\ h' = [h EXCEPT ![p] = [InitHist EXCEPT !.end = "CRASHED",
                                              !.payload = h[p].payload,
                                              !.verified = h[p].verified,
                                              !.effects = h[p].effects]]
    /\ UNCHANGED <<fs, fs0, exit_status, mirrored>>

\* One process runs main() again and again and may be killed at any point.
NextCrash == Next \/ Crash(1)

SpecCrash == Init /\ [][NextCrash]_vars

\* A step of main() once it is called, the cache check apart: the process
\* is scheduled, every request is answered or fails, and the payload stream
\* ends.
Running(p) ==
    /\ pc[p] \notin {"idle", "cache_check"}
    /\ Step(p, Docs, Payloads, TRUE)

\* The step of the cache check, whichever way it decides: it is a step
\* whenever control is at the cache check, as both branches of CacheCheck
\* are.
CacheCheckTaken(p) ==
    /\ pc[p] = "cache_check"
    /\ \/ /\ pc' = [pc EXCEPT ![p] = "main_exit"]
          /\ h' = [h EXCEPT ![p].ret = "False", ![p].end = "UNCHANGED"]
       \/ /\ pc' = [pc EXCEPT ![p] = "lock_check"]
          /\ h' = h
    /\ UNCHANGED <<fs, lv, fs0, exit_status, mirrored>>

\* One process runs main() again and again, and a call that has begun goes
\* on as long as it has a step to take.
SpecLive ==
    /\ Init
    /\ [][Next]_vars
    /\ WF_vars(Running(1))
    /\ WF_vars(CacheCheckTaken(1))

\* ---------------------------------------------------------------- claims

\* fetch_file has returned or raised to main(), which has not returned yet:
\* the locals and the record of the invocation are those of its end.
Ended(p) == pc[p] = "main_exit"

Out(p) == lv[p].output_path

CachePath(p) == get_hash_cache_path(lv[p].output_path)

LockPath(p) == downloading_path(lv[p].output_path)

\* The destination and the cache record are what they were at the call.
Untouched(p) ==
    /\ fs[Out(p)] = fs0[Out(p)]
    /\ fs[CachePath(p)] = fs0[CachePath(p)]

\* An I/O operation of the invocation failed after the payload request was
\* answered.
IOFailed(p) == h[p].end \in {"STREAM_ERR", "MOVE_ERR", "CACHE_ERR"}

\* The payload was streamed to its end and its digest compared.
Compared(p) ==
    /\ Ended(p)
    /\ h[p].status = HTTP_OK
    /\ h[p].end # "STREAM_ERR"

\* The text has a whitespace-delimited token.
HasWord(text) == \E i \in 1..Len(text) : ~IsSpace(text[i])

\* C1 (commit postcondition): an invocation that found no .downloading file,
\* resolved the digest of the payload the server then streamed with status
\* 200, was not stopped by the cache check and met no I/O failure returns
\* True; the destination then holds exactly the streamed payload and the
\* .downloading file is gone.  Until the rename the destination is what it
\* was at the call, and from the rename on it is the whole payload.
C1_CommitPostcondition ==
    \A p \in Procs :
        /\ ( /\ Ended(p)
             /\ ~fs0[LockPath(p)].ex
             /\ h[p].status = HTTP_OK
             /\ HexDigest(h[p].payload) = lv[p].expected_hash
             /\ ~CacheHit(fs0, Out(p), lv[p].expected_hash)
             /\ ~IOFailed(p) )
           => /\ h[p].ret = "True"
              /\ fs[Out(p)] = File(h[p].payload)
              /\ ~fs[LockPath(p)].ex
        /\ pc[p] \notin {"idle", "check_args"}
           => \/ fs[Out(p)] = fs0[Out(p)]
              \/ /\ "rename" \in h[p].effects
                 /\ fs[Out(p)] = File(h[p].payload)

\* C1 happens: a payload of full length has replaced an older destination.
C1_Witness ==
    \E p \in Procs :
        /\ Ended(p)
        /\ h[p].ret = "True"
        /\ fs0[Out(p)].ex
        /\ fs0[Out(p)] # fs[Out(p)]
        /\ Len(h[p].payload) = MaxChunks
        /\ fs[Out(p)] = File(h[p].payload)

\* C2 (idempotence): an invocation that resolves the checksum of the last
\* invocation that returned True, no other checksum having been resolved in
\* between, goes from the cache check straight to returning False: it
\* requests no payload, renames nothing and leaves the destination, the cache
\* record and the .downloading path as they were.  The invocations since the
\* one that returned True may be any number.
C2_Idempotence ==
    \A p \in Procs :
        h[p].repeat
        => /\ pc[p] \in {"cache_check", "main_exit"}
           /\ h[p].effects = {}
           /\ fs = fs0
           /\ Ended(p) => h[p].ret = "False"

\* C2 happens: a repeat has returned False for a document that is spaced
\* otherwise than the cache record.
C2_Witness ==
    \E p \in Procs :
        /\ h[p].repeat
        /\ Ended(p)
        /\ h[p].ret = "False"
        /\ h[p].doc # DocLine(lv[p].expected_hash)

\* C3 (corruption rejection): when the payload was streamed to its end and
\* its digest differs from the expected one, fetch_file raises, the
\* .downloading file is gone when the error reaches main(), and the
\* destination and the cache record are as they were at the call.
C3_CorruptionRejected ==
    \A p \in Procs :
        (Compared(p) /\ HexDigest(lv[p].sha) # lv[p].expected_hash)
        => /\ h[p].ret = "raise"
           /\ h[p].end = "CORRUPT"
           /\ ~fs[LockPath(p)].ex
           /\ Untouched(p)

\* C3 happens: a payload with the wrong digest was rejected while an older
\* destination and its cache record were there.
C3_Witness ==
    \E p \in Procs :
        /\ Compared(p)
        /\ HexDigest(lv[p].sha) # lv[p].expected_hash
        /\ Len(lv[p].sha) = MaxChunks
        /\ lv[p].expected_hash \in {HexDigest(q) : q \in Payloads}
        /\ fs[Out(p)].ex
        /\ fs[CachePath(p)].ex

\* C4 as claimed (lock precedence): with the .downloading marker there at the
\* call, every invocation that got a checksum document returns False and
\* requests no payload, whatever the document holds.
C4_LockPrecedenceClaimed ==
    \A p \in Procs :
        (Ended(p) /\ fs0[LockPath(p)].ex /\ h[p].doc_status = HTTP_OK)
        => /\ h[p].ret = "False"
           /\ "stream_request" \notin h[p].effects

\* C4 as amended: with the .downloading marker there at the call, no
\* invocation requests the payload or touches the directory; it returns False
\* when the checksum document has a token, and raises when the document is
\* empty or all white space.
C4_LockPrecedence ==
    \A p \in Procs :
        (Ended(p) /\ fs0[LockPath(p)].ex)
        => /\ "stream_request" \notin h[p].effects
           /\ fs = fs0
           /\ (h[p].doc_status = HTTP_OK /\ HasWord(h[p].doc))
              => h[p].ret = "False"
           /\ (h[p].doc_status = HTTP_OK /\ ~HasWord(h[p].doc))
              => h[p].ret = "raise"

\* C4 happens: the marker stopped an invocation whose cache check had found
\* no destination.
C4_Witness ==
    \E p \in Procs :
        /\ Ended(p)
        /\ fs0[LockPath(p)].ex
        /\ ~fs0[Out(p)].ex
        /\ h[p].end = "LOCKED"
        /\ h[p].ret = "False"

InDownload(p) == pc[p] \in {"request", "stream", "move"}

\* C6 as claimed (mutual exclusion): at most one invocation at a time is
\* between opening the .downloading file of a destination and its commit or
\* rollback.
C6_MutualExclusion ==
    \A p, q \in Procs :
        (p # q /\ InDownload(p) /\ InDownload(q)) => Out(p) # Out(q)

\* C7 as claimed (destination integrity): the destination is what it was
\* before the invocations, or the whole byte stream of an invocation that
\* verified it.
C7_DestinationIntegrity ==
    \A d \in Dests :
        \/ fs[d] = fs0[d]
        \/ \E p \in Procs : h[p].verified /\ fs[d] = File(h[p].payload)

\* C8 as claimed (guaranteed cleanup): an invocation that created the
\* .downloading file and ends otherwise than by returning True leaves no
\* .downloading file.
C8_CleanupClaimed ==
    \A p \in Procs :
        (Ended(p) /\ "open_dl" \in h[p].effects /\ h[p].ret # "True")
        => ~fs[LockPath(p)].ex

\* C9 (soft failure): when the payload request is answered with another
\* status than 200, fetch_file raises nothing and returns False, the
\* .downloading file it created is gone, nothing was renamed, and the
\* destination and the cache record are as they were at the call.
C9_SoftFailure ==
    \A p \in Procs :
        (Ended(p) /\ h[p].status \notin {0, HTTP_OK})
        => /\ h[p].ret = "False"
           /\ "open_dl" \in h[p].effects
           /\ ~fs[LockPath(p)].ex
           /\ "rename" \notin h[p].effects
           /\ Untouched(p)

\* C9 happens: a payload request was refused with an older destination in
\* place.
C9_Witness ==
    \E p \in Procs :
        /\ Ended(p)
        /\ h[p].status = 404
        /\ h[p].ret = "False"
        /\ fs[Out(p)].ex

\* The outcomes in which fetch_file returns normally according to the claim.
NormalEnds == {"COMMITTED", "UNCHANGED", "LOCKED"}

\* C10 as claimed (exit status): main returns 0 exactly when the invocation
\* ended updated, unchanged or lock-skipped; every other outcome yields 1.
C10_ExitStatusClaimed ==
    \A p \in Procs :
        (pc[p] = "idle" /\ exit_status[p] # -1)
        => (exit_status[p] = 0 <=> h[p].end \in NormalEnds)

\* C10 as amended: main returns 0 exactly when fetch_file returned (updated,
\* unchanged, lock-skipped, or the payload request refused) and 1 exactly
\* when fetch_file raised; a refused payload request yields 0.
C10_ExitStatus ==
    \A p \in Procs :
        (pc[p] = "idle" /\ exit_status[p] # -1)
        => /\ exit_status[p] \in {0, 1}
           /\ exit_status[p] = 0 <=> h[p].ret \in {"True", "False"}
           /\ exit_status[p] = 1 <=> h[p].ret = "raise"
           /\ exit_status[p] = 0 <=>
                h[p].end \in NormalEnds \cup {"TRANSPORT_FAIL"}

\* C10 happens: main has returned 1 after a corrupt payload.
C10_Witness ==
    \E p \in Procs :
        /\ pc[p] = "idle"
        /\ exit_status[p] = 1
        /\ h[p].end = "CORRUPT"

\* The checksum-document request was answered with another status than 200,
\* or with a document that has no token.
DocFailed(p) ==
    \/ h[p].doc_status \notin {0, HTTP_OK}
    \/ h[p].doc_status = HTTP_OK /\ ~HasWord(h[p].doc)

\* C11 (checksum-document failure is fatal): once the checksum-document
\* request is answered with a non-success status or with an empty or
\* whitespace-only document, fetch_file has raised: the invocation is at its
\* end, not back at the request (no retry), has issued no payload request,
\* created no .downloading file, and the directory is what it was at the call.
C11_HashFailureFatal ==
    \A p \in Procs :
        DocFailed(p)
        => /\ Ended(p)
           /\ h[p].ret = "raise"
           /\ h[p].end \in {"HASH_STATUS", "HASH_FORMAT"}
           /\ h[p].effects = {}
           /\ fs = fs0

\* C11 happens: a whitespace-only document has ended an invocation that
\* found an older destination and no .downloading file.
C11_Witness ==
    \E p \in Procs :
        /\ Ended(p)
        /\ DocFailed(p)
        /\ h[p].doc_status = HTTP_OK
        /\ h[p].doc # <<>>
        /\ ~fs[LockPath(p)].ex
        /\ fs[Out(p)].ex

\* The first whitespace-delimited token of a text that has one: it starts at
\* the first atom that is not white space and ends before the next white
\* space, or with the text.
FirstToken(text) ==
    LET i == CHOOSE i \in 1..Len(text) :
                 /\ ~IsSpace(text[i])
                 /\ \A k \in 1..(i - 1) : IsSpace(text[k])
        j == CHOOSE j \in i..Len(text) :
                 /\ \A k \in i..j : ~IsSpace(text[k])
                 /\ j = Len(text) \/ IsSpace(text[j + 1])
    IN SubSeq(text, i, j)

\* C12 (parse_hash_file): for every checksum document the server answers
\* with, parse_hash_file returns the first whitespace-delimited token when
\* the document has one, whatever white space is before, between and after
\* the tokens and whatever follows the first token, and raises ValueError
\* when the document is empty or all white space; the checksum fetch_file
\* expects is that token.
C12_ParseHashFile ==
    \A p \in Procs :
        h[p].doc_status = HTTP_OK
        => /\ HasWord(h[p].doc)
              => /\ parse_hash_file(h[p].doc) =
                        [ok |-> TRUE, val |-> FirstToken(h[p].doc)]
                 /\ lv[p].expected_hash = FirstToken(h[p].doc)
           /\ ~HasWord(h[p].doc)
              => /\ ~parse_hash_file(h[p].doc).ok
                 /\ h[p].end = "HASH_FORMAT"

\* C12 happens: a document with white space before its first token and a
\* second token after it was parsed to the first token.
C12_Witness ==
    \E p \in Procs :
        /\ h[p].doc_status = HTTP_OK
        /\ Len(h[p].doc) = MaxDocLen
        /\ IsSpace(h[p].doc[1])
        /\ Len(Split(h[p].doc)) = 2
        /\ lv[p].expected_hash = FirstToken(h[p].doc)
        /\ lv[p].expected_hash # Split(h[p].doc)[2]

\* Destination paths a record may name: those main() is started on, one
\* whose name holds a space, and one without a suffix.
RecordPaths == Dests \cup {<<"my", " ", "txt">>, <<"file">>}

\* C13 (cache-record round trip): for every checksum D the hash resolver has
\* accepted and every destination path P, the record text "D, two spaces, P"
\* parses to exactly D; and the record a commit has written to disk, read
\* back and parsed, yields the checksum the invocation expected.
C13_RoundTrip ==
    \A p \in Procs :
        lv[p].expected_hash # NoHash
        => /\ \A P \in RecordPaths :
                parse_hash_file(CacheText(lv[p].expected_hash, P)) =
                    [ok |-> TRUE, val |-> lv[p].expected_hash]
           /\ "write_cache" \in h[p].effects
              => /\ Decodable(fs[CachePath(p)].data)
                 /\ parse_hash_file(fs[CachePath(p)].data) =
                        [ok |-> TRUE, val |-> lv[p].expected_hash]

\* C13 happens: a commit has written the record of its checksum, resolved
\* from a document spaced otherwise than the record.
C13_Witness ==
    \E p \in Procs :
        /\ Ended(p)
        /\ h[p].ret = "True"
        /\ "write_cache" \in h[p].effects
        /\ fs[CachePath(p)] = File(CacheText(lv[p].expected_hash, Out(p)))
        /\ h[p].doc # DocLine(lv[p].expected_hash)
        /\ IsSpace(h[p].doc[1])

\* The cache check of the invocation is behind it.
CacheChecked(p) ==
    /\ lv[p].expected_hash # NoHash
    /\ pc[p] \notin {"idle", "check_args", "get_hash", "cache_check"}

\* At the call the destination and the cache record were there, and the
\* record was readable text whose first token is the expected checksum.
Unchanged0(p) ==
    LET rec == fs0[CachePath(p)] IN
    /\ fs0[Out(p)].ex
    /\ rec.ex
    /\ \A i \in 1..Len(rec.data) : rec.data[i] # BadByte
    /\ HasWord(rec.data)
    /\ FirstToken(rec.data) = lv[p].expected_hash

\* The places of fetch_file from the lock check on, and the ways an
\* invocation ends that has reached the lock check.
FromLockCheck ==
    {"lock_check", "open_dl", "request", "stream", "move", "cache_open",
     "cache_write", "finally"}

EndsFromLockCheck ==
    {"LOCKED", "OPEN_ERR", "PAYLOAD_NET", "TRANSPORT_FAIL", "STREAM_ERR",
     "CORRUPT", "MOVE_ERR", "CACHE_ERR", "COMMITTED"}

\* C14 (cache check decision): once the checksum is resolved, the invocation
\* returns False as unchanged exactly when the destination exists, the cache
\* record exists, is readable and has a token, and that token equals the
\* expected checksum; in every other case (destination or record missing,
\* record undecodable or empty, another digest) it goes on to the lock check
\* and does not raise at the cache check.
C14_CacheDecision ==
    \A p \in Procs :
        CacheChecked(p)
        => /\ Unchanged0(p)
              => /\ Ended(p)
                 /\ h[p].ret = "False"
                 /\ h[p].end = "UNCHANGED"
           /\ ~Unchanged0(p)
              => \/ pc[p] \in FromLockCheck /\ h[p].ret = "none"
                 \/ Ended(p) /\ h[p].end \in EndsFromLockCheck

\* C14 happens: with the destination there and a cache record that does not
\* decode, the invocation went on and committed.
C14_Witness ==
    \E p \in Procs :
        /\ Ended(p)
        /\ fs0[Out(p)].ex
        /\ fs0[CachePath(p)] = File(<<BadByte>>)
        /\ h[p].end = "COMMITTED"
        /\ h[p].ret = "True"

\* The .downloading marker of d is there and no invocation holds it open:
\* it was left behind.
Stale(d) ==
    /\ fs[downloading_path(d)].ex
    /\ \A p \in Procs : ~(lv[p].open /\ lv[p].output_path = d)

\* C15 (a stale lock blocks forever): while a marker is there that no
\* invocation holds open, no step of any invocation changes the directory
\* (the marker is neither removed nor rewritten, the destination and the
\* cache record are not updated), the marker stays stale, and an invocation
\* at its lock check returns False; so it is for any number of invocations.
C15_StaleLockBlocks ==
    [][\A d \in Dests :
          Stale(d)
          => /\ fs' = fs
             /\ Stale(d)'
             /\ \A p \in Procs :
                   (pc[p] = "lock_check" /\ Out(p) = d)
                   => /\ pc'[p] = "main_exit"
                      /\ h'[p].ret = "False"]_vars

\* C15 happens: a marker an earlier invocation left behind with a whole
\* verified payload in it, when its move failed, has stopped a later
\* invocation that expected another checksum.
C15_Witness ==
    \E p \in Procs :
        /\ Ended(p)
        /\ h[p].end = "LOCKED"
        /\ Stale(Out(p))
        /\ Len(fs[LockPath(p)].data) = MaxChunks
        /\ HexDigest(fs[LockPath(p)].data) # lv[p].expected_hash

\* C16 (step ordering): an invocation has issued the payload request only
\* when the checksum document was answered with status 200 and parsed to its
\* first token, the cache check did not report unchanged, the lock check
\* found no marker and the .downloading file was created; it has renamed
\* onto the destination only when the request was answered with status 200,
\* the whole payload was streamed and its digest compared equal to the
\* expected checksum.
C16_StepOrdering ==
    \A p \in Procs :
        /\ "stream_request" \in h[p].effects
           => /\ h[p].doc_status = HTTP_OK
              /\ HasWord(h[p].doc)
              /\ lv[p].expected_hash = FirstToken(h[p].doc)
              /\ ~Unchanged0(p)
              /\ ~fs0[LockPath(p)].ex
              /\ "open_dl" \in h[p].effects
        /\ "rename" \in h[p].effects
           => /\ "stream_request" \in h[p].effects
              /\ h[p].status = HTTP_OK
              /\ lv[p].body = <<>>
              /\ lv[p].sha = h[p].payload
              /\ h[p].verified
              /\ HexDigest(h[p].payload) = lv[p].expected_hash
        /\ "write_cache" \in h[p].effects => "rename" \in h[p].effects

\* C16 happens: the steps were taken one after the other up to the rename,
\* for a payload of full length, over a destination whose cache record named
\* another checksum.
C16_Witness ==
    \E p \in Procs :
        /\ pc[p] = "cache_open"
        /\ "rename" \in h[p].effects
        /\ Len(h[p].payload) = MaxChunks
        /\ fs0[Out(p)].ex
        /\ fs0[CachePath(p)].ex
        /\ HasWord(fs0[CachePath(p)].data)

\* No invocation is running: all that were started have returned or raised.
AllCompleted == \A p \in Procs : pc[p] = "idle"

\* C17 as claimed (destination/cache agreement): from a directory with
\* neither destination nor cache record, after any sequence of completed
\* invocations, a destination and a cache record that both exist agree: the
\* digest the record holds is the SHA-256 of the destination's bytes.
C17_AgreementClaimed ==
    AllCompleted
    => \A d \in Dests :
         LET rec == fs[get_hash_cache_path(d)] IN
         (fs[d].ex /\ rec.ex /\ Decodable(rec.data) /\ HasWord(rec.data))
         => parse_hash_file(rec.data).val = HexDigest(fs[d].data)

\* C18 as claimed (the destination path is the sole key): the paths derived
\* for a destination belong to it alone, so an invocation reported unchanged
\* was stopped by the record written for its own destination, and after a
\* commit, cache-record write included, the destination holds the payload.
C18_SoleKeyClaimed ==
    \A p \in Procs :
        /\ (Ended(p) /\ h[p].end = "UNCHANGED")
           => fs[CachePath(p)].data = CacheText(lv[p].expected_hash, Out(p))
        /\ (Ended(p) /\ h[p].end = "COMMITTED")
           => fs[Out(p)] = File(h[p].payload)

\* The invocation of p found the marker at its lock check and has not left
\* main() yet.
LockSkipped(p) == h[p].end = "LOCKED" /\ pc[p] # "idle"

\* C19 (lock-skip frame): at the lock check of an invocation that finds the
\* .downloading file there, the step it takes returns False and changes
\* nothing: the file is not opened, emptied, written, renamed or deleted, no
\* open handle of any invocation loses its file, the destination and the
\* cache record stay as they are; and no later step of that invocation
\* touches the directory (the cleanup does not run).
C19_LockSkipFrame ==
    [][\A p \in Procs :
          /\ ( /\ pc[p] = "lock_check"
               /\ pc'[p] # pc[p]
               /\ fs[LockPath(p)].ex )
             => /\ fs' = fs
                /\ \A q \in Procs : lv'[q] = lv[q]
                /\ pc'[p] = "main_exit"
                /\ h'[p].ret = "False"
                /\ h'[p].end = "LOCKED"
                /\ h'[p].effects = {}
          /\ (LockSkipped(p) /\ pc'[p] # pc[p])
             => /\ fs' = fs
                /\ pc'[p] = "idle"]_vars

\* C19 happens: an invocation was stopped at its lock check by a
\* .downloading file that holds part of a payload, and that is still there.
C19_Witness ==
    \E p \in Procs :
        /\ Ended(p)
        /\ LockSkipped(p)
        /\ h[p].ret = "False"
        /\ fs[LockPath(p)].ex
        /\ fs[LockPath(p)].data # <<>>
        /\ Len(fs[LockPath(p)].data) < MaxChunks

\* The invocation of q holds the .downloading file open and is requesting or
\* streaming its payload.
Downloading(q) == lv[q].open /\ pc[q] \in {"request", "stream"}

\* C20 as claimed (exclusive ownership of the in-flight payload): in every
\* interleaving, the .downloading file an invocation is writing is emptied,
\* deleted or renamed by no other invocation: while the invocation is
\* downloading, its file is still linked under the .downloading path and
\* holds all the invocation has written.
C20_ExclusiveOwnershipClaimed ==
    \A q \in Procs :
        Downloading(q)
        => /\ lv[q].at = LockPath(q)
           /\ Len(fs[LockPath(q)].data) >= lv[q].off

\* C21 (commit ordering and crash consistency): in every step of an
\* invocation, a crash at any point included, the cache record is not
\* deleted, and when it changes it is either emptied by the open for
\* writing of an invocation that has renamed its payload, or set to the
\* record of the expected checksum of an invocation that has renamed, while
\* the destination holds the payload that was verified against that
\* checksum.
C21_CommitOrdering ==
    [][\A d \in Dests :
          LET c == get_hash_cache_path(d) IN
          /\ fs[c].ex => fs'[c].ex
          /\ fs'[c] # fs[c]
             => \E p \in Procs :
                  /\ Out(p) = d
                  /\ "rename" \in h[p].effects
                  /\ h[p].verified
                  /\ fs'[d] = fs[d]
                  /\ \/ pc[p] = "cache_open" /\ fs'[c] = File(<<>>)
                     \/ /\ pc[p] = "cache_write"
                        /\ fs'[c] = File(CacheText(lv[p].expected_hash, d))
                        /\ fs[d] = File(h[p].payload)
                        /\ HexDigest(fs[d].data) = lv[p].expected_hash]_vars

\* C21 happens: a process was killed between the emptying of the cache
\* record and its write, the destination already replaced by a payload of
\* full length and the older record gone.
C21_Witness ==
    \E p \in Procs :
        /\ pc[p] = "idle"
        /\ h[p].end = "CRASHED"
        /\ {"rename", "trunc_cache"} \subseteq h[p].effects
        /\ "write_cache" \notin h[p].effects
        /\ \E d \in Dests :
            /\ fs[d] = File(h[p].payload)
            /\ Len(h[p].payload) = MaxChunks
            /\ fs[get_hash_cache_path(d)] = File(<<>>)
            /\ HasWord(fs0[get_hash_cache_path(d)].data)

\* The ways fetch_file ends by returning False, and by raising.
FalseEnds == {"UNCHANGED", "LOCKED", "TRANSPORT_FAIL"}

RaiseEnds ==
    {"NO_HASH_URL", "HASH_NET", "HASH_STATUS", "HASH_FORMAT", "OPEN_ERR",
     "PAYLOAD_NET", "STREAM_ERR", "CORRUPT", "MOVE_ERR", "CACHE_ERR"}

\* The invocation has ended in exactly one of the terminal outcomes.
OneOutcome(p) ==
    \/ h[p].ret = "False" /\ h[p].end \in FalseEnds
    \/ h[p].ret = "True" /\ h[p].end = "COMMITTED"
    \/ h[p].ret = "raise" /\ h[p].end \in RaiseEnds

\* C22 (termination): every invocation that is called ends, given that the
\* process keeps running, every request is answered and the stream is
\* finite; it ends in exactly one outcome (unchanged, lock-skipped or payload
\* transport failure, returning False; committed, returning True; or a
\* raised error), and then main() returns: it does not go back to an earlier
\* step and does not wait at the lock check.
C22_Termination ==
    /\ [](\A p \in Procs : Ended(p) => OneOutcome(p))
    /\ [][\A p \in Procs :
             (Ended(p) /\ pc'[p] # pc[p]) => pc'[p] = "idle"]_vars
    /\ \A p \in Procs : (pc[p] = "check_args") ~> Ended(p)

\* C22 happens: after an invocation that returned, a later one has found a
\* marker left behind and has ended at once, lock-skipped, without waiting.
C22_Witness ==
    \E p \in Procs :
        /\ Ended(p)
        /\ OneOutcome(p)
        /\ h[p].end = "LOCKED"
        /\ fs0[LockPath(p)].ex
        /\ exit_status[p] = 0

====
